---- MODULE Spec2Model ----
(***************************************************************************)
(* Model of the bingo event server (src/app/server.py).                    *)
(*                                                                         *)
(* The server keeps its whole state on disk: data/latest.json (the         *)
(* current-event slot) and one data/<id>_<name>.json per event (the        *)
(* archival records).  Every POST handler loads latest.json, mutates the   *)
(* dict and persists it.                                                   *)
(*                                                                         *)
(* Representation of the Python values:                                    *)
(*   None            <<>>                                                  *)
(*   a non-None x    <<x>>   where the field is nullable                   *)
(*   str             a sequence of one-character strings                   *)
(*   f"B-{n}"        <<"B", n>>                                            *)
(*   a timestamp     the second it was taken at (isoformat and the         *)
(*                   %Y%m%d_%H%M%S id are both injective in the second)    *)
(*   a Path in data/ <<eventId, safeName>>                                 *)
(***************************************************************************)
EXTENDS Integers, Sequences, FiniteSets, TLC

VARIABLES
    latest,     \* data/latest.json: None or <<state>>
    files,      \* data/*.json except latest.json: path -> state
    now,        \* the wall clock, in seconds
    resp,       \* what the last request sent back with send_json
    prevResp,   \* what the request before it sent back
    pre,        \* latest and files as the last request found them
    writes,     \* the files the last request wrote, in order
    th,         \* the request each server thread is handling
    peak,       \* the furthest status latest.json has shown to a reader
    started,    \* the number of request threads the server has started
    failed      \* the number of writes of an event's file that have failed

vars == <<latest, files, now, resp, prevResp, pre, writes, th, peak, started,
          failed>>

----------------------------------------------------------------------------
(* Bounds of the model *)

MaxClock == 1       \* the clock runs 0..MaxClock
MaxDraws == 2       \* Spec and SpecExhaust: no number is drawn on a history
                    \* of this length
MaxLeft == 1        \* SpecExhaust: numbers are drawn again once the pool is
                    \* down to this size
MaxFewDraws == 1    \* the other specifications: no number is drawn on a
                    \* history of this length
MaxRecords == 1     \* SpecClock: the archival records the directory holds
MaxFailures == 1    \* the writes of an event's file that fail in a run
MaxThreads == 2     \* the requests under way at a time
MaxRequests == 4    \* the requests of a run with concurrent requests

(* Program constants *)

RangeMax == 75      \* range(1, 76)
FullCount == 75     \* "remainingCount": 75 in new_event

None == <<>>
Some(x) == <<x>>

\* LATEST_FILE = DATA_DIR / "latest.json"
LATEST_FILE == <<"latest">>

----------------------------------------------------------------------------
(* Inputs of POST /api/new *)

\* the bodies tried: a missing name with a negative target, a name to strip
\* and to clean, a name with no character a file name keeps, and a second
\* name with the file name of the first
NewBodies ==
    { [ eventName |-> <<>>, winnersTarget |-> -1 ],
      [ eventName |-> <<" ", "P", "!">>, winnersTarget |-> 3 ],
      [ eventName |-> <<"!">>, winnersTarget |-> 0 ],
      [ eventName |-> <<"P">>, winnersTarget |-> 0 ] }

AlnumChars == { "P", "B", "i", "n", "g", "o", "E", "v", "e", "t" }
Whitespace == { " " }

DefaultEventName == <<"B", "i", "n", "g", "o", "E", "v", "e", "n", "t">>
DefaultSafeName == <<"e", "v", "e", "n", "t">>

RECURSIVE LStrip(_)
LStrip(s) ==
    IF s # <<>> /\ Head(s) \in Whitespace THEN LStrip(Tail(s)) ELSE s

RECURSIVE RStrip(_)
RStrip(s) ==
    IF s # <<>> /\ s[Len(s)] \in Whitespace
    THEN RStrip(SubSeq(s, 1, Len(s) - 1))
    ELSE s

\* str.strip()
Strip(s) == RStrip(LStrip(s))

\* "".join(ch for ch in s if ch.isalnum() or ch in ("-", "_")).strip() or "event"
safe_name(s) ==
    LET kept == SelectSeq(s, LAMBDA ch : ch \in AlnumChars \/ ch \in {"-", "_"})
        stripped == Strip(kept)
    IN  IF stripped = <<>> THEN DefaultSafeName ELSE stripped

\* datetime.now().strftime("%Y%m%d_%H%M%S")
now_id(t) == t

\* datetime.now().isoformat(timespec="seconds")
IsoNow(t) == Some(t)

\* DATA_DIR / f"{event_id}_{safe_name(event_name)}.json"
EventFilePath(event_id, event_name) == <<event_id, safe_name(event_name)>>

----------------------------------------------------------------------------
(* Pure functions *)

bingo_label(n) ==
    IF 1 <= n /\ n <= 15 THEN <<"B", n>>
    ELSE IF 16 <= n /\ n <= 30 THEN <<"I", n>>
    ELSE IF 31 <= n /\ n <= 45 THEN <<"N", n>>
    ELSE IF 46 <= n /\ n <= 60 THEN <<"G", n>>
    ELSE IF 61 <= n /\ n <= 75 THEN <<"O", n>>
    ELSE <<"", n>>

\* make_remaining_set with a slip: the range stops one short, range(1, 75)
make_remaining_set_short(state) ==
    LET used == { state.drawnOrder[i] : i \in DOMAIN state.drawnOrder }
    IN  (1..(RangeMax - 1)) \ used

\* make_remaining_set with a slip: only the last number drawn is taken out
make_remaining_set_last_only(state) ==
    LET drawn == state.drawnOrder
        used == IF drawn = <<>> THEN {} ELSE { drawn[Len(drawn)] }
    IN  (1..RangeMax) \ used

\* make_remaining_set with a slip: drawn numbers stay in the pool
make_remaining_set_full(state) == 1..RangeMax

\* set(range(1, 76)) - set(drawnOrder); every entry of drawnOrder is an int
make_remaining_set(state) ==
    LET used == { state.drawnOrder[i] : i \in DOMAIN state.drawnOrder }
    IN  (1..RangeMax) \ used

\* require_running with a slip: every event that is not ended passes
require_running_not_ended(state) == state.status # "ended"

require_running(state) == state.status = "running"

(* random.choice(seq) is seq[_randbelow(len(seq))], and _randbelow(n) takes  *)
(* getrandbits(n.bit_length()) from the generator until the value is below *)
(* n.  getrandbits(k) is the k leading bits of the generator's next 32-bit *)
(* output; a pool has at most 75 numbers, so k <= 7, and an output is      *)
(* given here by its 7 leading bits, a number in 0..127.  The state of the *)
(* generator is not followed: the outputs a draw finds are its input.      *)

\* n.bit_length()
RECURSIVE bit_length(_)
bit_length(n) == IF n = 0 THEN 0 ELSE 1 + bit_length(n \div 2)

\* getrandbits(k) on the output word
getrandbits(word, k) == word \div (2 ^ (7 - k))

\* the outputs words hold one that _randbelow(n) accepts
Accepted(n, words) ==
    \E i \in DOMAIN words : getrandbits(words[i], bit_length(n)) < n

\* _randbelow(n) on the outputs words: the first value below n
RECURSIVE randbelow(_, _)
randbelow(n, words) ==
    LET r == getrandbits(Head(words), bit_length(n))
    IN  IF r < n THEN r ELSE randbelow(n, Tail(words))

\* sorted(s)[k], found by walking up from n
RECURSIVE nth(_, _, _)
nth(s, k, n) ==
    IF n \in s
    THEN IF k = 0 THEN n ELSE nth(s, k - 1, n + 1)
    ELSE nth(s, k, n + 1)

\* random.choice(sorted(s)): the element of index _randbelow(len(s)) of the
\* ascending list
RandomChoiceSorted(s, words) ==
    nth(s, randbelow(Cardinality(s), words), 1)

\* the leading bits of an output of the generator
Words == 0 .. 127

\* the outputs a draw may get: any word, which gives every index of every
\* pool, and outputs whose first word is refused for the full pool
WordStreams ==
    { <<w>> : w \in Words } \cup { <<108, 49>>, <<79, 32>> }

----------------------------------------------------------------------------
(* Persistence *)

(* A file holds the JSON text of a state, given by the state itself, or     *)
(* bytes json.loads rejects: nothing (the file was opened for writing and  *)
(* not written yet), the head of a text (a write that failed on its way),  *)
(* or a text followed by the tail of a longer one (two overlapping         *)
(* writes).  Such content is given by its size, counted as TextLen counts. *)
NotJson(size) == [ bytes |-> size ]

IsJson(content) == "bytes" \notin DOMAIN content

\* latest.json is missing or json.loads fails: None
load_latest(slot) ==
    IF slot # None /\ IsJson(slot[1]) THEN slot ELSE None

\* the state dict built by new_event
\* t is the clock at now_id(), t2 the clock at the second datetime.now()
NewState(event_name, winners_target, t, t2) ==
    [ eventId        |-> now_id(t),
      eventName      |-> event_name,
      winnersTarget  |-> winners_target,
      createdAt      |-> IsoNow(t2),
      status         |-> "ready",
      startedAt      |-> None,
      endedAt        |-> None,
      currentNumber  |-> None,
      currentLabel   |-> None,
      drawnOrder     |-> <<>>,
      remainingCount |-> FullCount,
      eventFile      |-> EventFilePath(now_id(t), event_name),
      ui             |-> [ animationMs |-> 1000, confirmUndo |-> TRUE,
                           confirmEnd |-> TRUE ],
      rules          |-> [ rangeMin |-> 1, rangeMax |-> 75, freeCenter |-> TRUE,
                           winLine |-> 1, diagAllowed |-> TRUE ] ]

\* Path(event_file).write_text(json.dumps(state))
WriteFile(fs, path, state) == (path :> state) @@ fs

Ok(op, state) == [ op |-> op, ok |-> TRUE, error |-> "", state |-> state ]
Err(op, error) == [ op |-> op, ok |-> FALSE, error |-> error, state |-> None ]

\* a handler that returns before it writes anything
Rejected(slot, fs, op, error) ==
    [ latest |-> slot, files |-> fs, resp |-> Err(op, error), writes |-> <<>> ]

(* Path(event_file).write_text(text) inside try/except: the file is opened  *)
(* for writing, which empties it, and then written.  "written": both go    *)
(* well; "not opened": the open fails and the file is as it was; "cut":    *)
(* the write fails and the file keeps the bytes that got through, fewer    *)
(* than a whole text.                                                      *)
WriteOutcome(fs, path, state, arch) ==
    CASE arch = "written" -> WriteFile(fs, path, state)
      [] arch = "not opened" -> fs
      [] arch = "cut" -> WriteFile(fs, path, NotJson(0))

\* persist_state with a slip: the event's own file is never written
persist_state_latest_only(fs, op, state, arch) ==
    [ latest |-> Some(state),
      files  |-> fs,
      resp   |-> Ok(op, Some(state)),
      writes |-> <<LATEST_FILE>> ]

\* persist_state with a slip: a failed write of the event's file is reported
\* to the caller
persist_state_raises(fs, op, state, arch) ==
    [ latest |-> Some(state),
      files  |-> WriteOutcome(fs, state.eventFile, state, arch),
      resp   |-> IF arch = "written" THEN Ok(op, Some(state))
                 ELSE Err(op, "failed to write"),
      writes |-> IF arch = "written"
                 THEN <<LATEST_FILE, state.eventFile>> ELSE <<LATEST_FILE>> ]

\* persist_state followed by send_json({"ok": True, "state": state});
\* arch is how the write of the event's own file goes (a failure is caught
\* and ignored); writes lists the files written in full
persist_state(fs, op, state, arch) ==
    [ latest |-> Some(state),
      files  |-> WriteOutcome(fs, state.eventFile, state, arch),
      resp   |-> Ok(op, Some(state)),
      writes |-> IF arch = "written"
                 THEN <<LATEST_FILE, state.eventFile>> ELSE <<LATEST_FILE>> ]

----------------------------------------------------------------------------
(* What each handler does to the dict it loaded *)

\* handle_api_start, lines 257-258
StartMutate(state, t) ==
    [ state EXCEPT !.status = "running", !.startedAt = IsoNow(t) ]

\* DrawMutate with a slip: remainingCount is taken before the number is
\* appended
DrawMutate_stale_count(state, n) ==
    LET drawn == Append(state.drawnOrder, n)
    IN  [ state EXCEPT !.drawnOrder = drawn,
                       !.currentNumber = Some(n),
                       !.currentLabel = Some(bingo_label(n)),
                       !.remainingCount = Cardinality(make_remaining_set(state)) ]

\* DrawMutate with a slip: the number replaces the history
DrawMutate_drops_history(state, n) ==
    LET s1 == [ state EXCEPT !.drawnOrder = <<n>>,
                             !.currentNumber = Some(n),
                             !.currentLabel = Some(bingo_label(n)) ]
    IN  [ s1 EXCEPT !.remainingCount = Cardinality(make_remaining_set(s1)) ]

\* handle_api_draw, lines 280-288
DrawMutate(state, n) ==
    LET drawn == Append(state.drawnOrder, n)
        s1 == [ state EXCEPT !.drawnOrder = drawn,
                             !.currentNumber = Some(n),
                             !.currentLabel = Some(bingo_label(n)) ]
    IN  [ s1 EXCEPT !.remainingCount = Cardinality(make_remaining_set(s1)) ]

\* UndoMutate with a slip: the current number and label are left as they were
UndoMutate_keeps_current(state) ==
    LET drawn == SubSeq(state.drawnOrder, 1, Len(state.drawnOrder) - 1)
        s1 == [ state EXCEPT !.drawnOrder = drawn ]
    IN  [ s1 EXCEPT !.remainingCount = Cardinality(make_remaining_set(s1)) ]

\* UndoMutate with a slip: the oldest number is removed, not the newest
UndoMutate_pops_first(state) ==
    LET drawn == Tail(state.drawnOrder)
        s1 == IF drawn # <<>>
              THEN [ state EXCEPT !.drawnOrder = drawn,
                                  !.currentNumber = Some(drawn[Len(drawn)]),
                                  !.currentLabel =
                                      Some(bingo_label(drawn[Len(drawn)])) ]
              ELSE [ state EXCEPT !.drawnOrder = drawn,
                                  !.currentNumber = None,
                                  !.currentLabel = None ]
    IN  [ s1 EXCEPT !.remainingCount = Cardinality(make_remaining_set(s1)) ]

\* handle_api_undo, lines 310-323
UndoMutate(state) ==
    LET drawn == SubSeq(state.drawnOrder, 1, Len(state.drawnOrder) - 1)
        s1 == IF drawn # <<>>
              THEN [ state EXCEPT !.drawnOrder = drawn,
                                  !.currentNumber = Some(drawn[Len(drawn)]),
                                  !.currentLabel =
                                      Some(bingo_label(drawn[Len(drawn)])) ]
              ELSE [ state EXCEPT !.drawnOrder = drawn,
                                  !.currentNumber = None,
                                  !.currentLabel = None ]
    IN  [ s1 EXCEPT !.remainingCount = Cardinality(make_remaining_set(s1)) ]

\* EndMutate with a slip: ending clears what was drawn
EndMutate_clears_history(state, t) ==
    [ state EXCEPT !.status = "ended", !.endedAt = IsoNow(t),
                   !.drawnOrder = <<>>, !.currentNumber = None,
                   !.currentLabel = None, !.remainingCount = FullCount ]

\* handle_api_end, lines 339-340
EndMutate(state, t) ==
    [ state EXCEPT !.status = "ended", !.endedAt = IsoNow(t) ]

----------------------------------------------------------------------------
(* The handlers, as functions of the disk they find and of their inputs.   *)
(* Each yields the disk it leaves, its response and the files it wrote.    *)

\* new_event: the event's file is written first, then latest.json
NewResult(slot, fs, event_name, winners_target, t, t2) ==
    LET state == NewState(event_name, winners_target, t, t2)
    IN  [ latest |-> Some(state),
          files  |-> WriteFile(fs, state.eventFile, state),
          resp   |-> Ok("new", Some(state)),
          writes |-> <<state.eventFile, LATEST_FILE>> ]

\* handle_api_new: the body's fields are normalised, then new_event
handle_api_new(slot, fs, body, t, t2) ==
    LET stripped == Strip(body.eventName)
        event_name == IF stripped = <<>> THEN DefaultEventName ELSE stripped
        winners_target == IF body.winnersTarget < 0 THEN 0
                          ELSE body.winnersTarget
    IN  NewResult(slot, fs, event_name, winners_target, t, t2)

\* StartRefused with the test left out
StartRefused_never(state) == FALSE

\* handle_api_start, line 252: the request is refused
StartRefused(state) == state.status = "ended"

\* StartNeeded with the test left out: every start stamps the event
StartNeeded_always(state) == TRUE

\* handle_api_start, line 256: the event is not running yet
StartNeeded(state) == state.status # "running"

\* EndDone with the test left out: every end stamps the event
EndDone_never(state) == FALSE

\* handle_api_end, line 335: the event is ended already
EndDone(state) == state.status = "ended"

handle_api_start(slot, fs, t, arch) ==
    LET loaded == load_latest(slot) IN
    IF loaded = None THEN Rejected(slot, fs, "start", "no event")
    ELSE LET state == loaded[1] IN
         IF StartRefused(state)
         THEN Rejected(slot, fs, "start", "event ended")
         ELSE IF StartNeeded(state)
         THEN persist_state(fs, "start", StartMutate(state, t), arch)
         ELSE [ latest |-> slot, files |-> fs,
                resp |-> Ok("start", Some(state)), writes |-> <<>> ]

\* words are the outputs the generator has for this request
handle_api_draw(slot, fs, words, arch) ==
    LET loaded == load_latest(slot) IN
    IF loaded = None THEN Rejected(slot, fs, "draw", "no event")
    ELSE LET state == loaded[1] IN
         IF ~require_running(state)
         THEN Rejected(slot, fs, "draw", "not running")
         ELSE LET remaining == make_remaining_set(state) IN
              IF remaining = {}
              THEN Rejected(slot, fs, "draw", "no remaining numbers")
              ELSE LET n == RandomChoiceSorted(remaining, words)
                   IN  persist_state(fs, "draw", DrawMutate(state, n), arch)

\* whether handle_api_draw reaches random.choice
DrawsNumber(slot) ==
    /\ load_latest(slot) # None
    /\ require_running(load_latest(slot)[1])
    /\ make_remaining_set(load_latest(slot)[1]) # {}

handle_api_undo(slot, fs, arch) ==
    LET loaded == load_latest(slot) IN
    IF loaded = None THEN Rejected(slot, fs, "undo", "no event")
    ELSE LET state == loaded[1] IN
         IF ~require_running(state)
         THEN Rejected(slot, fs, "undo", "not running")
         ELSE IF state.drawnOrder = <<>>
         THEN Rejected(slot, fs, "undo", "nothing to undo")
         ELSE persist_state(fs, "undo", UndoMutate(state), arch)

handle_api_end(slot, fs, t, arch) ==
    LET loaded == load_latest(slot) IN
    IF loaded = None THEN Rejected(slot, fs, "end", "no event")
    ELSE LET state == loaded[1] IN
         IF EndDone(state)
         THEN [ latest |-> slot, files |-> fs,
                resp |-> Ok("end", Some(state)), writes |-> <<>> ]
         ELSE persist_state(fs, "end", EndMutate(state, t), arch)

----------------------------------------------------------------------------
(* The state machine: one request at a time *)

\* the outcomes of the write of the event's own file when the disk is healthy
WritesSucceed == { "written" }

NoResp == [ op |-> "none", ok |-> TRUE, error |-> "", state |-> None ]

\* the operation and the outcome of a response
Brief(r) == [ op |-> r.op, ok |-> r.ok ]

\* ThreadingHTTPServer handles each request on a thread of its own
Threads == 1 .. MaxThreads

\* a thread with no request: the state it writes and answers with, the
\* files it has still to write and the file it has open
NoRequest ==
    [ op |-> "none", state |-> None, todo |-> <<>>, fd |-> "closed" ]

\* ready, running, ended in the order of the life cycle
StatusRank(status) ==
    CASE status = "ready" -> 0
      [] status = "running" -> 1
      [] status = "ended" -> 2

\* the furthest of peak and the status of what a reader of slot gets
PeakAfter(slot, p) ==
    LET loaded == load_latest(slot)
    IN  IF loaded # None /\ StatusRank(loaded[1].status) > p
        THEN StatusRank(loaded[1].status) ELSE p

\* main starts the server on the data directory it finds: latest.json is
\* slot and the other files are fs.  No request has come yet.
Boot(slot, fs) ==
    /\ th = [ t \in Threads |-> NoRequest ]
    /\ peak = 0
    /\ started = 0
    /\ failed = 0
    /\ latest = slot
    /\ files = fs
    /\ now = 0
    /\ resp = NoResp
    /\ prevResp = Brief(NoResp)
    /\ pre = [ latest |-> slot, files |-> fs ]
    /\ writes = <<>>

\* the server starts on an empty data directory
Init == Boot(None, <<>>)

\* a request ran to its response
Answer(result) ==
    /\ latest' = result.latest
    /\ files' = result.files
    /\ resp' = result.resp
    /\ writes' = result.writes
    /\ prevResp' = Brief(resp)
    /\ pre' = [ latest |-> latest, files |-> files ]

\* the same with no other request under way
Serve(result) ==
    /\ Answer(result)
    /\ UNCHANGED <<th, peak, started>>

\* persist_state was reached and the write of the event's file went wrong
Fails(result, arch) == arch # "written" /\ result.writes # <<>>

\* a request ran to its response on a disk where writes may fail; fails
\* tells whether its write of the event's file did
Suffer(result, fails) ==
    LET count == IF fails THEN failed + 1 ELSE failed
    IN  /\ count <= MaxFailures
        /\ Serve(result)
        /\ failed' = count
        /\ UNCHANGED now

Tick ==
    /\ now < MaxClock
    /\ now' = now + 1
    /\ UNCHANGED <<latest, files, resp, prevResp, pre, writes, th, peak,
                   started, failed>>

\* the seconds that may pass between the two clock reads of new_event
Lapses == { 0, 1 }
NoLapse == { 0 }

\* the body the clients send in the runs that draw
OneBody == { [ eventName |-> <<"P">>, winnersTarget |-> 0 ] }

PostNew(lapses, bodies) ==
    \E body \in bodies, lapse \in lapses :
        /\ now + lapse <= MaxClock
        /\ Serve(handle_api_new(latest, files, body, now, now + lapse))
        /\ now' = now + lapse
        /\ UNCHANGED failed

\* the data directory has room for the record of an event created now
HasRoom(bodies) ==
    \A body \in bodies :
        Cardinality(DOMAIN handle_api_new(latest, files, body, now, now).files)
            <= MaxRecords

PostStart(outcomes) ==
    \E arch \in outcomes :
        LET result == handle_api_start(latest, files, now, arch)
        IN  Suffer(result, Fails(result, arch))

\* the outputs the generator may give the draw on slot: a draw that is
\* refused asks for none
StreamsFor(slot) ==
    IF DrawsNumber(slot)
    THEN { words \in WordStreams :
             Accepted(Cardinality(make_remaining_set(slot[1])), words) }
    ELSE { <<>> }

\* no number is drawn on a history of length limit or more; a draw that
\* is refused is tried on every history
PostDraw(limit, outcomes) ==
    /\ DrawsNumber(latest) => Len(latest[1].drawnOrder) < limit
    /\ \E arch \in outcomes, words \in StreamsFor(latest) :
           LET result == handle_api_draw(latest, files, words, arch)
           IN  Suffer(result, Fails(result, arch))

PostUndo(outcomes) ==
    \E arch \in outcomes :
        LET result == handle_api_undo(latest, files, arch)
        IN  Suffer(result, Fails(result, arch))

PostEnd(outcomes) ==
    \E arch \in outcomes :
        LET result == handle_api_end(latest, files, now, arch)
        IN  Suffer(result, Fails(result, arch))

NewAtOnce == PostNew(NoLapse, OneBody)
Start == PostStart(WritesSucceed)
Draw == PostDraw(MaxDraws, WritesSucceed)
Undo == PostUndo(WritesSucceed)
End == PostEnd(WritesSucceed)

\* One request at a time, all within one second: an event created again
\* takes the id, and so the record, of the one before
Next ==
    \/ NewAtOnce
    \/ Start
    \/ Draw
    \/ Undo
    \/ End

Spec == Init /\ [][Next]_vars

\* One request at a time while the clock runs; the second may change
\* between the two clock reads of new_event
New == HasRoom(OneBody) /\ PostNew(Lapses, OneBody)
DrawFew == PostDraw(MaxFewDraws, WritesSucceed)

NextClock ==
    \/ Tick
    \/ New
    \/ Start
    \/ DrawFew
    \/ Undo
    \/ End

SpecClock == Init /\ [][NextClock]_vars

\* sorted(s) as a list
Sorted(s) == [ i \in 1 .. Cardinality(s) |-> nth(s, i - 1, 1) ]

\* The program keeps nothing in memory between two requests, and main reads
\* no file: a run may begin on the directory an earlier run left.  Here it
\* holds one event, created, started and drawn down to the numbers of left,
\* the others taken in ascending order.  The last of these draws found the
\* history of the ones before and set every field a draw sets.
EndGame(left) ==
    LET body == CHOOSE b \in OneBody : TRUE
        created == handle_api_new(None, <<>>, body, 0, 0)
        begun == handle_api_start(created.latest, created.files, 0, "written")
        taken == Sorted((1 .. RangeMax) \ left)
        found == [ begun.latest[1] EXCEPT
                     !.drawnOrder = SubSeq(taken, 1, Len(taken) - 1) ]
    IN  persist_state(begun.files, "draw",
                      DrawMutate(found, taken[Len(taken)]), "written")

\* the sets of at most k numbers
RECURSIVE AtMost(_)
AtMost(k) ==
    IF k = 0 THEN { {} }
    ELSE AtMost(k - 1)
             \cup { left \cup { n } : left \in AtMost(k - 1), n \in 1 .. RangeMax }

\* the pools an earlier run may have left
Leftovers == AtMost(MaxLeft)

\* the server starts on an empty directory or on one with such an event
InitExhaust ==
    \/ Init
    \/ \E left \in Leftovers :
           LET found == EndGame(left) IN Boot(found.latest, found.files)

\* An event drawn until its pool is empty: no undo, no end.  The first
\* MaxDraws and the last MaxLeft draws of an event are followed, each with
\* every number of its pool, and a draw is tried on the full history.
DrawOut ==
    /\ DrawsNumber(latest) =>
           \/ Len(latest[1].drawnOrder) < MaxDraws
           \/ Len(latest[1].drawnOrder) >= RangeMax - MaxLeft
    /\ PostDraw(RangeMax + 1, WritesSucceed)

NextExhaust ==
    \/ NewAtOnce
    \/ Start
    \/ DrawOut

SpecExhaust == InitExhaust /\ [][NextExhaust]_vars

----------------------------------------------------------------------------
(* Vocabulary of the properties *)

HasEvent == load_latest(latest) # None
Cur == latest[1]                \* the state in latest.json
HadEvent == load_latest(pre.latest) # None
Before == pre.latest[1]         \* the state the last request loaded

Elems(seq) == { seq[i] : i \in DOMAIN seq }
NoDuplicates(seq) ==
    \A i, j \in DOMAIN seq : i # j => seq[i] # seq[j]

\* the label of n in 1..75: the columns B, I, N, G, O hold 15 numbers each
ColumnLabel(n) == << <<"B", "I", "N", "G", "O">>[((n - 1) \div 15) + 1], n >>

\* the last request changed nothing on disk and wrote nothing
DiskUntouched ==
    /\ latest = pre.latest
    /\ files = pre.files
    /\ writes = <<>>

\* the draw history and the fields derived from it
Core(state) ==
    [ drawnOrder     |-> state.drawnOrder,
      currentNumber  |-> state.currentNumber,
      currentLabel   |-> state.currentLabel,
      remainingCount |-> state.remainingCount ]

\* the fields no draw and no undo may touch
Frame(state) ==
    [ eventId       |-> state.eventId,
      eventName     |-> state.eventName,
      winnersTarget |-> state.winnersTarget,
      createdAt     |-> state.createdAt,
      status        |-> state.status,
      startedAt     |-> state.startedAt,
      endedAt       |-> state.endedAt,
      eventFile     |-> state.eventFile,
      ui            |-> state.ui,
      rules         |-> state.rules ]

----------------------------------------------------------------------------
\* C1: when an event is created, started and drawn until the pool is empty,
\* with no undo, every draw on a running event with fewer than 75 numbers
\* drawn succeeds and appends one number, no number is ever drawn twice, all
\* are in 1..75, and the history that empties the pool has length 75 and holds
\* each of 1..75: exactly 75 draws succeed.  Whatever number of the pool a
\* draw picks in a state on the way, the history it leaves has no duplicate.
C1_DrawsUntilExhaustion ==
    /\ HasEvent =>
        /\ NoDuplicates(Cur.drawnOrder)
        /\ Elems(Cur.drawnOrder) \subseteq 1..75
        /\ Len(Cur.drawnOrder) <= 75
        /\ Len(Cur.drawnOrder) = 75 => Elems(Cur.drawnOrder) = 1..75
        /\ \A n \in make_remaining_set(Cur) :
               LET drawn == DrawMutate(Cur, n).drawnOrder
               IN  /\ Len(drawn) = Len(Cur.drawnOrder) + 1
                   /\ Cardinality(Elems(drawn)) = Len(drawn)
                   /\ Elems(drawn) \subseteq 1..75
    /\ (resp.op = "draw" /\ HadEvent) =>
        IF Before.status = "running" /\ Len(Before.drawnOrder) < 75
        THEN /\ resp.ok
             /\ Len(Cur.drawnOrder) = Len(Before.drawnOrder) + 1
             /\ SubSeq(Cur.drawnOrder, 1, Len(Before.drawnOrder))
                    = Before.drawnOrder
        ELSE ~resp.ok

\* the 75th draw has succeeded
C1_Witness ==
    /\ HasEvent
    /\ resp.op = "draw"
    /\ resp.ok
    /\ Len(Cur.drawnOrder) = 75
    /\ Len(Before.drawnOrder) = 74

\* C2: in every state reached by create, start, draw, undo and end, the
\* stored derived fields agree with drawnOrder: remainingCount is 75 minus the
\* length of drawnOrder and the size of the pool, currentNumber and
\* currentLabel are the last drawn number and its label, and both are null
\* exactly when nothing is drawn.
C2_DerivedFieldsAgree ==
    HasEvent =>
        LET drawn == Cur.drawnOrder IN
        /\ Cur.remainingCount = 75 - Len(drawn)
        /\ Cur.remainingCount = Cardinality((1..75) \ Elems(drawn))
        /\ Cur.remainingCount = Cardinality(make_remaining_set(Cur))
        /\ (Cur.currentNumber = None) <=> (drawn = <<>>)
        /\ (Cur.currentLabel = None) <=> (drawn = <<>>)
        /\ drawn # <<>> =>
            /\ Cur.currentNumber = Some(drawn[Len(drawn)])
            /\ Cur.currentLabel = Some(ColumnLabel(drawn[Len(drawn)]))

\* an undo has brought an earlier number back as the current one
C2_Witness ==
    /\ HasEvent
    /\ resp.op = "undo"
    /\ resp.ok
    /\ Len(Cur.drawnOrder) = 1
    /\ Cur.currentNumber = Some(Cur.drawnOrder[1])
    /\ Cur.remainingCount = 74

\* C3: in every state with a running event, for every number of the pool, a
\* draw of that number followed at once by an undo gives back the
\* drawnOrder, currentNumber, currentLabel and remainingCount the draw found;
\* and whenever an undo request succeeds right after a successful draw
\* request, these four fields on disk are those the draw request loaded.
C3_DrawThenUndoIsIdentity ==
    /\ [](HasEvent /\ require_running(Cur) =>
            \A n \in make_remaining_set(Cur) :
                Core(UndoMutate(DrawMutate(Cur, n))) = Core(Cur))
    /\ [][(/\ resp.op = "draw" /\ resp.ok
           /\ resp'.op = "undo" /\ resp'.ok)
          => /\ HadEvent
             /\ latest' # None
             /\ Core(latest'[1]) = Core(Before)]_vars

\* an undo has succeeded right after a draw that had a history to extend
C3_Witness ==
    /\ HasEvent
    /\ resp.op = "undo" /\ resp.ok
    /\ prevResp = [ op |-> "draw", ok |-> TRUE ]
    /\ Len(Cur.drawnOrder) = 1

\* C4: a draw or an undo on an event that is ready or ended fails with "not
\* running", writes nothing and leaves latest.json and the event's record as
\* they were; the status keeps its value.
C4_NotRunningRejected ==
    (/\ resp.op \in {"draw", "undo"}
     /\ HadEvent
     /\ Before.status \in {"ready", "ended"})
    => /\ ~resp.ok
       /\ resp.error = "not running"
       /\ DiskUntouched
       /\ Cur.status = Before.status

\* a draw right after create: refused, the event still ready with no number
C4_Witness ==
    /\ HasEvent
    /\ resp.op = "draw"
    /\ resp.error = "not running"
    /\ prevResp = [ op |-> "new", ok |-> TRUE ]
    /\ Cur.status = "ready"
    /\ Cur.drawnOrder = <<>>

\* C5: a draw on a running event fails with "no remaining numbers" exactly
\* when all of 1..75 are in drawnOrder, and it then writes nothing: the
\* history keeps its 75 numbers, currentNumber and remainingCount = 0 keep
\* their values.
C5_PoolExhaustedRejected ==
    (resp.op = "draw" /\ HadEvent /\ Before.status = "running") =>
        /\ (resp.error = "no remaining numbers")
               <=> (Elems(Before.drawnOrder) = 1..75)
        /\ resp.error = "no remaining numbers" =>
            /\ ~resp.ok
            /\ DiskUntouched
            /\ Len(Cur.drawnOrder) = 75
            /\ Cur.remainingCount = 0
            /\ Cur.currentNumber = Before.currentNumber

\* the 76th draw has been refused
C5_Witness ==
    /\ HasEvent
    /\ resp.op = "draw"
    /\ resp.error = "no remaining numbers"
    /\ Len(Cur.drawnOrder) = 75

\* C6: an undo on a running event with nothing drawn fails with "nothing to
\* undo" and writes nothing; an undo that succeeds removes the last element
\* of drawnOrder and changes no field but the history and the three derived
\* from it; so a second undo after create, start, draw, undo is refused with
\* drawnOrder empty and remainingCount 75.
C6_UndoRemovesLastOnly ==
    (resp.op = "undo" /\ HadEvent /\ Before.status = "running") =>
        IF Before.drawnOrder = <<>>
        THEN /\ ~resp.ok
             /\ resp.error = "nothing to undo"
             /\ DiskUntouched
             /\ Cur.drawnOrder = <<>>
             /\ Cur.remainingCount = 75
        ELSE /\ resp.ok
             /\ Cur.drawnOrder = SubSeq(Before.drawnOrder, 1,
                                        Len(Before.drawnOrder) - 1)
             /\ Frame(Cur) = Frame(Before)

\* the second of two undos is refused, the first having undone the only draw
C6_Witness ==
    /\ HasEvent
    /\ resp.op = "undo"
    /\ resp.error = "nothing to undo"
    /\ prevResp = [ op |-> "undo", ok |-> TRUE ]
    /\ Cur.drawnOrder = <<>>
    /\ Cur.remainingCount = 75

\* C7: a start on an event that is running succeeds, writes no file and
\* returns the state it loaded: startedAt, status and every other field of
\* latest.json and of the event's record are as before, whatever the clock.
C7_StartWhileRunningIsNoOp ==
    (resp.op = "start" /\ HadEvent /\ Before.status = "running") =>
        /\ resp.ok
        /\ resp.state = pre.latest
        /\ DiskUntouched
        /\ Cur.startedAt = Before.startedAt
        /\ Cur.status = "running"

\* a second start, later than the second the event was started in
C7_Witness ==
    /\ HasEvent
    /\ resp.op = "start" /\ resp.ok
    /\ prevResp = [ op |-> "start", ok |-> TRUE ]
    /\ writes = <<>>
    /\ Cur.startedAt # None
    /\ now > Cur.startedAt[1]

\* C8: an end on an event that is ended succeeds, writes no file and returns
\* the state it loaded: endedAt is the one the first end set, also when the
\* clock has advanced since.
C8_EndWhileEndedIsNoOp ==
    (resp.op = "end" /\ HadEvent /\ Before.status = "ended") =>
        /\ resp.ok
        /\ resp.state = pre.latest
        /\ DiskUntouched
        /\ Cur.endedAt = Before.endedAt
        /\ Cur.status = "ended"

\* a second end, later than the second the event was ended in
C8_Witness ==
    /\ HasEvent
    /\ resp.op = "end" /\ resp.ok
    /\ prevResp = [ op |-> "end", ok |-> TRUE ]
    /\ writes = <<>>
    /\ Cur.endedAt # None
    /\ now > Cur.endedAt[1]

\* C9: once the current event is ended, a start fails with "event ended", a
\* draw and an undo fail with "not running", an end succeeds, and each of
\* them leaves latest.json as it was: the status is still ended and
\* drawnOrder unchanged after any sequence of them.
C9_EndedIsTerminal ==
    (/\ resp.op \in {"start", "draw", "undo", "end"}
     /\ HadEvent
     /\ Before.status = "ended")
    => /\ resp.op = "start" => ~resp.ok /\ resp.error = "event ended"
       /\ resp.op \in {"draw", "undo"} =>
              ~resp.ok /\ resp.error = "not running"
       /\ resp.op = "end" => resp.ok
       /\ latest = pre.latest
       /\ Cur.status = "ended"
       /\ Cur.drawnOrder = Before.drawnOrder

\* a start refused on an ended event that has numbers drawn
C9_Witness ==
    /\ HasEvent
    /\ resp.op = "start"
    /\ resp.error = "event ended"
    /\ Cur.status = "ended"
    /\ Len(Cur.drawnOrder) >= 1

\* the timestamps of the current event do not change once set, under the
\* last request if it was a start, a draw, an undo or an end
TimestampsKept ==
    (resp.op \in {"start", "draw", "undo", "end"} /\ HadEvent) =>
        /\ Cur.createdAt = Before.createdAt
        /\ Before.startedAt # None => Cur.startedAt = Before.startedAt
        /\ Before.endedAt # None =>
              /\ Cur.endedAt = Before.endedAt
              /\ Cur.startedAt = Before.startedAt

\* C10 as stated: createdAt, startedAt and endedAt are set once each and in
\* that order; a timestamp never changes once set, startedAt is never set
\* after endedAt, and endedAt is never set while startedAt is null.
C10_Original ==
    /\ HasEvent => Cur.createdAt # None
    /\ TimestampsKept
    /\ HasEvent => (Cur.endedAt # None => Cur.startedAt # None)

\* C10, amended: createdAt is set by create, which takes it from the clock
\* and leaves startedAt and endedAt null; a timestamp never changes once
\* set; startedAt is never set after endedAt; startedAt is set exactly on
\* the events that have been started and endedAt exactly on the ended ones.
\* An end on a ready event sets endedAt with startedAt null, and startedAt
\* then stays null.
C10_TimestampsSetOnce ==
    /\ HasEvent =>
        /\ Cur.createdAt # None
        /\ Cur.status = "ready" =>
               Cur.startedAt = None /\ Cur.endedAt = None
        /\ Cur.status = "running" =>
               Cur.startedAt # None /\ Cur.endedAt = None
        /\ Cur.status = "ended" => Cur.endedAt # None
    /\ TimestampsKept
    /\ resp.op = "new" =>
        /\ HasEvent
        /\ Cur.status = "ready"
        /\ Cur.createdAt # None
        /\ Cur.eventId <= Cur.createdAt[1] /\ Cur.createdAt[1] <= now
        /\ Cur.startedAt = None /\ Cur.endedAt = None
    /\ (resp.op = "end" /\ HadEvent /\ Before.status = "ready") =>
           Cur.endedAt # None /\ Cur.startedAt = None

\* an event ended before it was started, and a later start refused: endedAt
\* is set and startedAt is null for good
C10_Witness ==
    /\ HasEvent
    /\ resp.op = "start"
    /\ resp.error = "event ended"
    /\ Cur.endedAt # None
    /\ Cur.startedAt = None
    /\ now > Cur.endedAt[1]

----------------------------------------------------------------------------
\* C11: with one request at a time and every write succeeding, latest.json
\* and the file of the current event hold the same content after every
\* request; a start, draw, undo or end that persists writes both, latest.json
\* first.
C11_CopiesAgree ==
    /\ HasEvent =>
        /\ Cur.eventFile \in DOMAIN files
        /\ files[Cur.eventFile] = Cur
    /\ (resp.op \in {"start", "draw", "undo", "end"} /\ writes # <<>>) =>
           writes = <<LATEST_FILE, Cur.eventFile>>

\* a draw has rewritten both copies
C11_Witness ==
    /\ HasEvent
    /\ resp.op = "draw" /\ resp.ok
    /\ writes = <<LATEST_FILE, Cur.eventFile>>
    /\ Len(Cur.drawnOrder) = 2
    /\ files[Cur.eventFile].drawnOrder = Cur.drawnOrder

\* C18: an end that ends the event changes status and endedAt only:
\* drawnOrder, currentNumber, currentLabel, remainingCount, eventId,
\* eventName, winnersTarget, createdAt, startedAt, eventFile, ui and rules
\* are on disk as the request found them.
C18_EndKeepsHistory ==
    (resp.op = "end" /\ HadEvent /\ Before.status # "ended") =>
        /\ resp.ok
        /\ Cur = [ Before EXCEPT !.status = Cur.status,
                                 !.endedAt = Cur.endedAt ]
        /\ Core(Cur) = Core(Before)
        /\ Cur.eventFile = Before.eventFile
        /\ Cur.startedAt = Before.startedAt
        /\ Cur.status = "ended"
        /\ Cur.endedAt # None

\* an event ended with two numbers drawn, which are still there
C18_Witness ==
    /\ HasEvent
    /\ resp.op = "end" /\ resp.ok
    /\ writes # <<>>
    /\ Before.status = "running"
    /\ Len(Cur.drawnOrder) = 2
    /\ Cur.currentNumber = Some(Cur.drawnOrder[2])

----------------------------------------------------------------------------
(* One request at a time on a disk where the write of the event's own file *)
(* may fail: persist_state catches the exception and goes on.  All requests *)
(* arrive within one second.                                               *)

\* the outcomes of the write of the event's own file on such a disk
WritesMayFail == { "written", "not opened", "cut" }

StartOnBadDisk == PostStart(WritesMayFail)
DrawOnBadDisk == PostDraw(MaxFewDraws, WritesMayFail)
UndoOnBadDisk == PostUndo(WritesMayFail)
EndOnBadDisk == PostEnd(WritesMayFail)

NextArchFail ==
    \/ NewAtOnce
    \/ StartOnBadDisk
    \/ DrawOnBadDisk
    \/ UndoOnBadDisk
    \/ EndOnBadDisk

SpecArchFail == Init /\ [][NextArchFail]_vars

\* the last request wrote latest.json and failed to write the event's file
ArchiveWriteFailed ==
    /\ resp.op \in {"start", "draw", "undo", "end"}
    /\ writes = <<LATEST_FILE>>

\* C12: when the write of the event's own file fails during a start, draw,
\* undo or end, latest.json holds the new state all the same and the
\* request answers ok with that state and no error; the event's file is as
\* it was or holds the head of a text, and no other file is touched.
C12_ArchiveFailureSwallowed ==
    /\ (resp.op \in {"start", "draw", "undo", "end"} /\ HadEvent /\ resp.ok) =>
           latest = resp.state
    /\ ArchiveWriteFailed =>
        /\ resp.ok
        /\ resp.error = ""
        /\ HasEvent /\ HadEvent
        /\ latest = resp.state
        /\ latest # pre.latest
        /\ DOMAIN files = DOMAIN pre.files
        /\ \A path \in DOMAIN files :
               \/ files[path] = pre.files[path]
               \/ path = Cur.eventFile /\ ~IsJson(files[path])
        /\ resp.op = "start" => Cur.status = "running"
        /\ resp.op = "end" => Cur.status = "ended"
        /\ resp.op = "draw" =>
               Len(Cur.drawnOrder) = Len(Before.drawnOrder) + 1
        /\ resp.op = "undo" =>
               Len(Cur.drawnOrder) = Len(Before.drawnOrder) - 1

\* a draw whose second write failed: latest.json is ahead of the event's file
C12_Witness ==
    /\ ArchiveWriteFailed
    /\ resp.op = "draw" /\ resp.ok
    /\ Len(Cur.drawnOrder) = 1
    /\ ~IsJson(files[Cur.eventFile])
    /\ IsJson(pre.files[Cur.eventFile])
    /\ pre.files[Cur.eventFile].status = "running"

----------------------------------------------------------------------------
(* Housekeeping: GET /api/state, /api/reset, /api/use, /api/delete.        *)
(*                                                                         *)
(* A request names a file by a string.  [form, file] stands for a string   *)
(* that Path.resolve() takes to the file `file` of the data directory:     *)
(*   "absolute"  DATA_DIR/<name>, the string new_event stores in eventFile *)
(*   "dot"       DATA_DIR/./<name>; Path() drops the "." component         *)
(*   "relative"  ../data/<name>, relative to the working directory web/    *)
(*   "dotdot"    APP_ROOT/web/../data/<name>; Path() keeps ".."            *)
(* and the other forms stand for no string, for a path outside the data    *)
(* directory and for latest.json itself.                                   *)

RefForms == { "absolute", "dot", "relative", "dotdot" }

\* a file name no event has
MissingFile == <<0, <<"n", "o">>>>

\* the eventFile values tried on a data directory holding fs
FileRefs(fs) ==
    [ form : RefForms, file : DOMAIN fs \cup { MissingFile } ]
        \cup { [ form |-> "none", file |-> None ],
               [ form |-> "outside", file |-> None ],
               [ form |-> "absolute", file |-> LATEST_FILE ] }

\* isinstance(event_file, str) and event_file
IsNonEmptyStr(ref) == ref.form # "none"

\* data_resolved in p.resolve().parents
InsideDataDir(ref) == ref.form \in RefForms

\* p.resolve(): the file the string leads to
Resolved(ref) == ref.file

\* str(Path(event_file)): the string itself, less its "." components
StrOfPath(ref) ==
    IF ref.form \in { "absolute", "dot" }
    THEN ref.file
    ELSE <<ref.form, ref.file[1], ref.file[2]>>

\* p.exists()
Exists(slot, fs, ref) ==
    IF Resolved(ref) = LATEST_FILE
    THEN slot # None
    ELSE Resolved(ref) \in DOMAIN fs

\* p.unlink()
Unlink(fs, path) == [ q \in (DOMAIN fs) \ { path } |-> fs[q] ]

\* a handler that answers {"ok": True} or {"ok": True, "state": state}
Done(slot, fs, op, state, written) ==
    [ latest |-> slot, files |-> fs, resp |-> Ok(op, state), writes |-> written ]

handle_api_state(slot, fs) ==
    Done(slot, fs, "state", load_latest(slot), <<>>)

\* handle_api_reset with a slip: the record of the current event goes too
handle_api_reset_unlinks_record(slot, fs) ==
    Done(None,
         IF slot # None THEN Unlink(fs, slot[1].eventFile) ELSE fs,
         "reset", None, <<>>)

handle_api_reset(slot, fs) ==
    Done(None, fs, "reset", None, <<>>)

handle_api_use(slot, fs, ref) ==
    IF ~IsNonEmptyStr(ref)
    THEN Rejected(slot, fs, "use", "eventFile is required")
    ELSE IF ~InsideDataDir(ref)
    THEN Rejected(slot, fs, "use", "invalid path")
    ELSE IF ~Exists(slot, fs, ref)
    THEN Rejected(slot, fs, "use", "file not found")
    ELSE LET st == IF Resolved(ref) = LATEST_FILE
                   THEN slot[1] ELSE fs[Resolved(ref)]
         IN  IF ~IsJson(st)
             THEN Rejected(slot, fs, "use", "failed to read json")
             ELSE Done(Some(st), fs, "use", Some(st), <<LATEST_FILE>>)

\* handle_api_delete, line 458: latest.json names the file to delete
DeletesCurrent(loaded, ref) ==
    loaded # None /\ loaded[1].eventFile = StrOfPath(ref)

handle_api_delete(slot, fs, ref) ==
    IF ~IsNonEmptyStr(ref)
    THEN Rejected(slot, fs, "delete", "eventFile is required")
    ELSE IF ~InsideDataDir(ref)
    THEN Rejected(slot, fs, "delete", "invalid path")
    ELSE IF Resolved(ref) = LATEST_FILE
    THEN Rejected(slot, fs, "delete", "cannot delete latest.json")
    ELSE IF ~Exists(slot, fs, ref)
    THEN Rejected(slot, fs, "delete", "file not found")
    ELSE LET loaded == load_latest(slot)
             slot2 == IF DeletesCurrent(loaded, ref) THEN None ELSE slot
         IN  Done(slot2, Unlink(fs, Resolved(ref)), "delete", None, <<>>)

(* POST /api/state: the client sends a whole state.  [isDict, value] stands *)
(* for the "state" member of the body: isDict is what                      *)
(* isinstance(state, dict) answers, value is the dict.                     *)

\* a state as the program itself leaves it after new, start and one draw
SyncedState == DrawMutate(StartMutate(NewState(<<"P">>, 0, 0, 0), 0), 7)

\* the bodies with no dict, with a state of the program and with that state
\* and a history no draw can produce
WholePayloads ==
    { [ isDict |-> FALSE, value |-> None ],
      [ isDict |-> TRUE, value |-> SyncedState ],
      [ isDict |-> TRUE,
        value |-> [ SyncedState EXCEPT !.drawnOrder = <<1, 1, 99>>,
                                       !.remainingCount = 5 ] ] }

\* the bodies tried: those, and a dict with one key
SavePayloads ==
    WholePayloads \cup { [ isDict |-> TRUE, value |-> [ status |-> "running" ] ] }

\* state.get("eventFile")
GetEventFile(state) ==
    IF "eventFile" \in DOMAIN state THEN Some(state.eventFile) ELSE None

handle_api_save_state(slot, fs, payload, arch) ==
    IF ~payload.isDict
    THEN Rejected(slot, fs, "save_state", "state is required")
    ELSE LET state == payload.value
             event_file == GetEventFile(state)
             written == event_file # None /\ arch = "written"
         IN  [ latest |-> Some(state),
               files  |-> IF event_file # None
                          THEN WriteOutcome(fs, event_file[1], state, arch)
                          ELSE fs,
               resp   |-> Ok("save_state", None),
               writes |-> IF written
                          THEN <<LATEST_FILE, event_file[1]>>
                          ELSE <<LATEST_FILE>> ]

SaveStateOf(payloads, outcomes) ==
    \E payload \in payloads, arch \in outcomes :
        Suffer(handle_api_save_state(latest, files, payload, arch),
               /\ arch # "written"
               /\ payload.isDict
               /\ GetEventFile(payload.value) # None)

\* the client sends a body with no dict or with a dict that has every key:
\* the handlers that go on from it find the keys they read
SaveWhole == SaveStateOf(WholePayloads, WritesSucceed)

GetState ==
    /\ Serve(handle_api_state(latest, files))
    /\ UNCHANGED <<now, failed>>

PostReset ==
    /\ Serve(handle_api_reset(latest, files))
    /\ UNCHANGED <<now, failed>>

PostUse ==
    \E ref \in FileRefs(files) :
        /\ Serve(handle_api_use(latest, files, ref))
        /\ UNCHANGED <<now, failed>>

PostDelete ==
    \E ref \in FileRefs(files) :
        /\ Serve(handle_api_delete(latest, files, ref))
        /\ UNCHANGED <<now, failed>>

DrawOnce == PostDraw(MaxFewDraws, WritesSucceed)

\* One request at a time, housekeeping included, within one second
NextAdmin ==
    \/ NewAtOnce
    \/ Start
    \/ DrawOnce
    \/ Undo
    \/ End
    \/ GetState
    \/ PostReset
    \/ PostUse
    \/ PostDelete
    \/ SaveWhole

SpecAdmin == Init /\ [][NextAdmin]_vars

----------------------------------------------------------------------------
(* C13: after a completed delete request, whatever the form of the         *)
(* reference it carried, latest.json never names an archival record that   *)
(* no longer exists: deleting the record latest.json points to clears      *)
(* latest.json too.                                                        *)
C13_DeleteClearsCurrent ==
    (resp.op = "delete" /\ resp.ok /\ HasEvent) =>
        Cur.eventFile \in DOMAIN files

\* latest.json is removed by a reset, whatever the data directory holds
ResetClears ==
    resp.op = "reset" =>
        /\ resp.ok
        /\ latest = None
        /\ files = pre.files
        /\ handle_api_state(latest, files).resp.state = None
        /\ \A op \in { "start", "draw", "undo", "end" } :
               LET result == CASE op = "start" ->
                                    handle_api_start(latest, files, now,
                                                     "written")
                               [] op = "draw" ->
                                    handle_api_draw(latest, files, <<49>>,
                                                    "written")
                               [] op = "undo" ->
                                    handle_api_undo(latest, files, "written")
                               [] op = "end" ->
                                    handle_api_end(latest, files, now,
                                                   "written")
               IN  result = Rejected(None, files, op, "no event")

\* a request that found no latest.json: state reports null, start, draw,
\* undo and end answer "no event" and touch nothing, and there is a current
\* event afterwards only if the request was one of ops and succeeded
NoEventUntil(ops) ==
    ~HadEvent =>
        /\ resp.op = "state" => (resp.ok /\ resp.state = None /\ DiskUntouched)
        /\ resp.op \in { "start", "draw", "undo", "end" } =>
               (~resp.ok /\ resp.error = "no event" /\ DiskUntouched)
        /\ HasEvent => (resp.op \in ops /\ resp.ok)

(* C15 as stated: reset removes latest.json only.  It always answers ok,   *)
(* also when latest.json does not exist, and leaves every archival record  *)
(* as it was.  As long as latest.json is missing, state reports null and   *)
(* start, draw, undo and end answer "no event" and touch nothing; only new *)
(* or use brings a current event back.                                     *)
C15_Original ==
    /\ ResetClears
    /\ NoEventUntil({ "new", "use" })

(* C15, amended: reset removes latest.json only, always answers ok and     *)
(* leaves every archival record as it was.  As long as latest.json is      *)
(* missing, state reports null and start, draw, undo and end answer "no    *)
(* event" and touch nothing; new, use or a POST /api/state that carries a  *)
(* dict brings a current event back, and nothing else does.                *)
C15_ResetClearsSlotOnly ==
    /\ ResetClears
    /\ NoEventUntil({ "new", "use", "save_state" })
    /\ (resp.op = "save_state" /\ resp.ok) => HasEvent

\* a POST /api/state right after a reset: latest.json is back, with a
\* running event, and neither new nor use was asked
C15_Witness ==
    /\ resp.op = "save_state" /\ resp.ok
    /\ prevResp = [ op |-> "reset", ok |-> TRUE ]
    /\ ~HadEvent
    /\ HasEvent
    /\ Cur.status = "running"
    /\ pre.files # <<>>

----------------------------------------------------------------------------
(* POST /api/state with any body *)

PostSaveState == SaveStateOf(SavePayloads, WritesMayFail)

\* an event of any of the names and targets is created
NewAny == PostNew(NoLapse, NewBodies)

\* One request at a time: events are created, synced from the client, read
\* back and cleared
NextSave ==
    \/ NewAny
    \/ PostSaveState
    \/ GetState
    \/ PostReset

SpecSave == Init /\ [][NextSave]_vars

\* the keys of a state
EventFields == DOMAIN NewState(<<>>, 0, 0, 0)

\* an Event of the data model: its fields present, a history without
\* duplicates within 1..75, the derived fields as the history has them
WellFormed(state) ==
    /\ DOMAIN state = EventFields
    /\ NoDuplicates(state.drawnOrder)
    /\ Elems(state.drawnOrder) \subseteq 1..RangeMax
    /\ state.remainingCount = FullCount - Len(state.drawnOrder)
    /\ state.currentNumber =
           IF state.drawnOrder = <<>> THEN None
           ELSE Some(state.drawnOrder[Len(state.drawnOrder)])
    /\ state.currentLabel =
           IF state.drawnOrder = <<>> THEN None
           ELSE Some(bingo_label(state.drawnOrder[Len(state.drawnOrder)]))

(* C14: save_state overwrites latest.json only with a well-formed Event;   *)
(* any other payload is answered with an error and leaves latest.json and  *)
(* every archival record as they were.                                     *)
C14_OnlyWellFormedStored ==
    resp.op = "save_state" =>
        IF resp.ok
        THEN HasEvent /\ WellFormed(Cur)
        ELSE DiskUntouched

----------------------------------------------------------------------------
(* Concurrent requests.  The handlers take no lock: a handler reads        *)
(* latest.json once, works on its own copy of the dict and then writes the *)
(* files one after the other.  Path.write_text opens the file, which       *)
(* empties it, and writes the text when it closes it; the threads of other *)
(* requests run in between.  A step is one read, one open or one write of  *)
(* a file.                                                                 *)

\* len(str(n)), n >= 0
RECURSIVE Digits(_)
Digits(n) == IF n < 10 THEN 1 ELSE 1 + Digits(n \div 10)

\* the bytes of json.dumps(None) or of a value of size bytes
NullOr(x, size) == IF x = None THEN 4 ELSE size

\* the bytes of the drawnOrder list under indent=2
ListLen(drawn) ==
    IF drawn = <<>> THEN 2
    ELSE LET RECURSIVE Items(_)
             Items(i) == IF i = 0 THEN 0
                         ELSE 4 + Digits(drawn[i]) + Items(i - 1)
         IN  2 + Items(Len(drawn)) + 2 * (Len(drawn) - 1) + 4

\* the bytes of a status
StatusLen(status) == IF status = "running" THEN 7 ELSE 5

\* the bytes of json.dumps(state, ensure_ascii=False, indent=2) that differ
\* from state to state; the keys, the punctuation, eventId, createdAt, ui,
\* rules and the data directory take the same number of bytes in every text
TextLen(state) ==
    Len(state.eventName)
    + Digits(state.winnersTarget)
    + StatusLen(state.status)
    + NullOr(state.startedAt, 21)
    + NullOr(state.endedAt, 21)
    + NullOr(state.currentNumber,
             IF state.currentNumber = None THEN 0
             ELSE Digits(state.currentNumber[1]))
    + NullOr(state.currentLabel,
             IF state.currentLabel = None THEN 0
             ELSE 4 + Digits(state.currentLabel[1][2]))
    + ListLen(state.drawnOrder)
    + Digits(state.remainingCount)
    + Len(state.eventFile[2])

\* the size of what a file holds
Size(content) == IF IsJson(content) THEN TextLen(content) ELSE content.bytes

\* the write of the text of state at the start of a file that holds content:
\* what lies beyond the end of the text stays
WriteText(content, state) ==
    IF Size(content) <= TextLen(state) THEN state
    ELSE NotJson(Size(content))

\* the thread has no write left to do
Idle(t) == th[t].todo = <<>>

\* the server starts a thread for each request; the threads are numbered in
\* the order of the requests they serve at a time
Free(t) == Idle(t) /\ \A u \in Threads : u < t => ~Idle(u)

\* a handler ran up to its first write: result is what it would do if no
\* other request ran before its response.  A handler that writes nothing
\* answers at once.
Begin(t, op, result) ==
    /\ Free(t)
    /\ started < MaxRequests
    /\ started' = started + 1
    /\ th' = [ th EXCEPT ![t] =
                 IF result.writes = <<>> THEN NoRequest
                 ELSE [ op    |-> op,
                        state |-> result.latest,
                        todo  |-> result.writes,
                        fd    |-> "closed" ] ]
    /\ UNCHANGED <<latest, files, now, resp, prevResp, pre, writes, peak,
                   failed>>

BeginNew(t) ==
    \E body \in OneBody :
        Begin(t, "new", handle_api_new(latest, files, body, now, now))

BeginStart(t) ==
    Begin(t, "start", handle_api_start(latest, files, now, "written"))

BeginDraw(t) ==
    /\ Free(t)
    /\ started < MaxRequests
    /\ \E words \in StreamsFor(latest) :
           Begin(t, "draw", handle_api_draw(latest, files, words, "written"))

BeginUndo(t) ==
    Begin(t, "undo", handle_api_undo(latest, files, "written"))

BeginEnd(t) ==
    Begin(t, "end", handle_api_end(latest, files, now, "written"))

\* the thread is about to open file
Opens(t, file) ==
    /\ ~Idle(t)
    /\ th[t].fd = "closed"
    /\ (Head(th[t].todo) = LATEST_FILE) = file

\* the thread is about to write the file it has open
Writes(t, file) ==
    /\ ~Idle(t)
    /\ th[t].fd # "closed"
    /\ (Head(th[t].todo) = LATEST_FILE) = file

\* the thread after the write of the file it has open: with its last file
\* written the handler answers and the thread ends
Written(t) ==
    IF Len(th[t].todo) = 1 THEN NoRequest
    ELSE [ th[t] EXCEPT !.todo = Tail(@), !.fd = "closed" ]

\* save_latest: LATEST_FILE.write_text(...) opens latest.json
OpenLatest(t) ==
    /\ Opens(t, TRUE)
    /\ latest' = Some(NotJson(0))
    /\ th' = [ th EXCEPT ![t].fd = "open" ]
    /\ UNCHANGED <<files, now, resp, prevResp, pre, writes, peak, started,
                   failed>>

\* save_latest: the text goes to the file the thread opened, which is
\* latest.json unless a reset unlinked it since; watch tells whether the
\* run follows the statuses latest.json shows
WriteLatest(t, watch) ==
    /\ Writes(t, TRUE)
    /\ latest' = IF th[t].fd = "open"
                 THEN Some(WriteText(latest[1], th[t].state[1]))
                 ELSE latest
    /\ peak' = IF watch THEN PeakAfter(latest', peak) ELSE peak
    /\ th' = [ th EXCEPT ![t] = Written(t) ]
    /\ UNCHANGED <<files, now, resp, prevResp, pre, writes, started, failed>>

\* Path(event_file).write_text(...) opens the event's file
OpenEventFile(t) ==
    /\ Opens(t, FALSE)
    /\ files' = WriteFile(files, Head(th[t].todo), NotJson(0))
    /\ th' = [ th EXCEPT ![t].fd = "open" ]
    /\ UNCHANGED <<latest, now, resp, prevResp, pre, writes, peak, started,
                   failed>>

\* Path(event_file).write_text(...) writes the text and closes
WriteEventFile(t) ==
    /\ Writes(t, FALSE)
    /\ files' = WriteFile(files, Head(th[t].todo),
                          WriteText(files[Head(th[t].todo)], th[t].state[1]))
    /\ th' = [ th EXCEPT ![t] = Written(t) ]
    /\ UNCHANGED <<latest, now, resp, prevResp, pre, writes, peak, started,
                   failed>>

\* handle_api_reset: latest.json is unlinked; a thread that has it open
\* keeps a file no name leads to
Reset(t) ==
    /\ Free(t)
    /\ started < MaxRequests
    /\ started' = started + 1
    /\ latest' = handle_api_reset(latest, files).latest
    /\ th' = [ u \in Threads |->
                 IF Writes(u, TRUE) THEN [ th[u] EXCEPT !.fd = "orphan" ]
                 ELSE th[u] ]
    /\ UNCHANGED <<files, now, resp, prevResp, pre, writes, peak, failed>>

\* the first event is created before the audience connects
NewFirst ==
    /\ latest = None
    /\ started < MaxRequests
    /\ started' = started + 1
    /\ \E body \in OneBody :
           Answer(handle_api_new(latest, files, body, now, now))
    /\ UNCHANGED <<now, th, peak, failed>>

\* At most MaxRequests requests on one event, MaxThreads of them at a time,
\* within one second
NextRace ==
    \/ NewFirst
    \/ \E t \in Threads : BeginStart(t)
    \/ \E t \in Threads : BeginDraw(t)
    \/ \E t \in Threads : BeginUndo(t)
    \/ \E t \in Threads : BeginEnd(t)
    \/ \E t \in Threads : OpenLatest(t)
    \/ \E t \in Threads : WriteLatest(t, TRUE)
    \/ \E t \in Threads : OpenEventFile(t)
    \/ \E t \in Threads : WriteEventFile(t)

SpecRace == Init /\ [][NextRace]_vars

\* The same with requests that start and draw only
NextDraws ==
    \/ NewFirst
    \/ \E t \in Threads : BeginStart(t)
    \/ \E t \in Threads : BeginDraw(t)
    \/ \E t \in Threads : OpenLatest(t)
    \/ \E t \in Threads : WriteLatest(t, FALSE)
    \/ \E t \in Threads : OpenEventFile(t)
    \/ \E t \in Threads : WriteEventFile(t)

SpecDraws == Init /\ [][NextDraws]_vars

\* The same with events created and the current one cleared
\* while other requests run
NextRaceAll ==
    \/ \E t \in Threads : BeginNew(t)
    \/ \E t \in Threads : BeginStart(t)
    \/ \E t \in Threads : BeginDraw(t)
    \/ \E t \in Threads : BeginUndo(t)
    \/ \E t \in Threads : BeginEnd(t)
    \/ \E t \in Threads : OpenLatest(t)
    \/ \E t \in Threads : WriteLatest(t, FALSE)
    \/ \E t \in Threads : OpenEventFile(t)
    \/ \E t \in Threads : WriteEventFile(t)
    \/ \E t \in Threads : Reset(t)

SpecRaceAll == Init /\ [][NextRaceAll]_vars

----------------------------------------------------------------------------
(* Claims on concurrent requests *)

\* no request is between its load and its response
AllIdle == \A t \in Threads : Idle(t)

\* the history a draw loaded, and the number it drew
Front(seq) == SubSeq(seq, 1, Len(seq) - 1)
Last(seq) == seq[Len(seq)]

\* the threads all serve a draw, they loaded the same history of the same
\* event, and each has saved latest.json: what is left to each is the write
\* of the event's file and the answer ok with the state it wrote
BothDrew ==
    /\ \A t \in Threads :
           /\ th[t].op = "draw"
           /\ th[t].todo = <<th[t].state[1].eventFile>>
    /\ \A t, u \in Threads :
           /\ Frame(th[t].state[1]) = Frame(th[u].state[1])
           /\ Front(th[t].state[1].drawnOrder)
                  = Front(th[u].state[1].drawnOrder)

\* the number a thread's draw answers
Drawn(t) == th[t].state[1].currentNumber[1]

\* a history the data model allows
ValidHistory(state) ==
    /\ NoDuplicates(state.drawnOrder)
    /\ Elems(state.drawnOrder) \subseteq 1..RangeMax
    /\ Len(state.drawnOrder) <= RangeMax
    /\ state.remainingCount = FullCount - Len(state.drawnOrder)

(* C16: under any interleaving of start, draw, undo and end requests the   *)
(* status a reader finds in latest.json only moves ready -> running ->     *)
(* ended; it never goes back, and ended is never overwritten by running.   *)
C16_StatusMonotonic ==
    HasEvent => StatusRank(Cur.status) >= peak

(* C17: a draw request writes, and answers ok with, the state it loaded   *)
(* plus a number of the pool of that state; and once two draw requests     *)
(* that loaded the same state have both saved latest.json, a reader finds  *)
(* in it the state of one of them only: the history grew by one number and *)
(* the number of the other draw is not in it.                              *)
C17_LostUpdate ==
    /\ [][\A t \in Threads :
            (Idle(t) /\ th'[t].op = "draw") =>
                LET state == th'[t].state[1] IN
                /\ HasEvent
                /\ Frame(state) = Frame(Cur)
                /\ Front(state.drawnOrder) = Cur.drawnOrder
                /\ Last(state.drawnOrder) \in make_remaining_set(Cur)
                /\ state.currentNumber = Some(Last(state.drawnOrder))]_vars
    /\ [](BothDrew =>
            /\ latest # None
            /\ HasEvent =>
                /\ latest \in { th[t].state : t \in Threads }
                /\ Len(Cur.drawnOrder) = Len(th[1].state[1].drawnOrder))

\* two draws on the same history drew different numbers, and latest.json
\* holds the number of the second thread only
C17_Witness ==
    /\ BothDrew
    /\ HasEvent
    /\ Drawn(1) # Drawn(2)
    /\ Len(th[1].state[1].drawnOrder) = 1
    /\ Len(Cur.drawnOrder) = 1
    /\ Drawn(2) \in Elems(Cur.drawnOrder)
    /\ Drawn(1) \notin Elems(Cur.drawnOrder)

(* C19: under any interleaving of new, start, draw, undo, end and reset    *)
(* requests every state a reader finds in latest.json or in an archival    *)
(* record, and every state about to be written, has a drawnOrder without   *)
(* duplicates, within 1..75, of at most 75 numbers, and remainingCount =   *)
(* 75 - len(drawnOrder).                                                   *)
C19_NoDuplicatesUnderRaces ==
    /\ HasEvent => ValidHistory(Cur)
    /\ \A path \in DOMAIN files :
           IsJson(files[path]) => ValidHistory(files[path])
    /\ \A t \in Threads : th[t].state # None => ValidHistory(th[t].state[1])

\* a draw loaded the number of a draw that had its own file still to
\* write: at rest latest.json holds two numbers and the record the first
C19_Witness ==
    /\ AllIdle
    /\ HasEvent
    /\ Len(Cur.drawnOrder) = 2
    /\ Cur.eventFile \in DOMAIN files
    /\ IsJson(files[Cur.eventFile])
    /\ files[Cur.eventFile].drawnOrder = <<Cur.drawnOrder[1]>>

(* C20: once every request in flight has answered, latest.json and the     *)
(* archival record of the current event are identical.                     *)
C20_CopiesAgreeAtRest ==
    (AllIdle /\ HasEvent) =>
        /\ Cur.eventFile \in DOMAIN files
        /\ files[Cur.eventFile] = Cur

====
